---- MODULE Spec2Model ----
(***************************************************************************)
(* Job lifecycle engine of gavin-the-fish: the in-memory job store         *)
(* (job_registry.py), the job_context helper (job_utils.py), the tool      *)
(* execution endpoint with its sync_threshold policy (tools/core.py) and   *)
(* the job administration endpoints (routers/jobs.py).                     *)
(*                                                                         *)
(* Python values are modelled as follows: a dict is a TLA+ record (a       *)
(* function from string keys), None/absent is the empty tuple <<>> and a   *)
(* present optional value x is <<x>>; str() and isoformat() results are    *)
(* strings. Time is counted in polling intervals (asyncio.sleep(0.1)).     *)
(***************************************************************************)
EXTENDS Integers, Sequences, FiniteSets, TLC

\* ------------------------------------------------------------------ bounds
\* number of tool invocations (HTTP POST /{tool}) in one run
MaxInv == 2
\* size of the job id space drawn from by _generate_job_id
NumIds == 2
\* the positive sync_threshold of the bounded-wait tools, in polling intervals
D == 2
\* number of direct create_job calls in the store-level specification
MaxCreates == 2
\* number of notifications one job may emit in the store-level specification
MaxNotes == 1
\* last instant of the clock in the store-level specification
MaxStoreTime == 1

\* --------------------------------------------------------------- constants
\* tools/core.py:180, await asyncio.sleep(0.1): one polling interval
PollInterval == 1
\* tools/core.py:99, the sync_threshold value that blocks until completion
BlockThreshold == -1

JobIds == 1..NumIds
Invs == 1..MaxInv

None == <<>>
Some(x) == <<x>>
EmptyDict == [k \in {} |-> 0]

\* JobStatus (job_registry.py:10-16)
PENDING == "pending"
RUNNING == "running"
SUCCESS == "success"
FAILED == "failed"
CANCELLED == "cancelled"
EXPIRED == "expired"
JobStatus == {PENDING, RUNNING, SUCCESS, FAILED, CANCELLED, EXPIRED}
\* the statuses of a job that is over: those cancel_job (job_registry.py:181)
\* refuses to cancel
Terminal == {SUCCESS, FAILED, CANCELLED, EXPIRED}

\* datetime.isoformat(): the timestamp rendered as text
isoformat(t) == ToString(t)

\* ------------------------------------------------------------ tool registry
\* JobSettings (tools/core.py:33-39); sync_threshold is None, -1, 0 or D.
JobSettings(st, c, title, msg) ==
    [sync_threshold |-> st, job_timeout |-> None, notify_title |-> title,
     notify_message |-> msg, cancelable |-> c]

\* The tools registered in the model: name -> settings (None: registered
\* without settings). set_timer and goose carry the settings declared for them
\* in tools/timer.py:33-42 and tools/goose.py:20-29; fibonacci is declared in
\* tools/fibbonaci.py:29-45 with settings whose fields JobSettings does not
\* know, which leaves every field at its default; blocker, deferred and unset
\* exercise the thresholds -1, 0 and None that register() accepts.
Tools ==
    [set_timer |-> Some(JobSettings(Some(D), TRUE, Some("Timer Complete"),
                        Some("Timer completed after {duration_seconds} seconds"))),
     goose     |-> Some(JobSettings(Some(D), TRUE, Some("Goose Command Complete"),
                        Some("Goose command completed for target {target}"))),
     fibonacci |-> Some(JobSettings(None, FALSE, None, None)),
     blocker   |-> Some(JobSettings(Some(BlockThreshold), TRUE, None, None)),
     deferred  |-> Some(JobSettings(Some(0), TRUE, None, None)),
     unset     |-> Some(JobSettings(None, TRUE, Some("Done"), None))]

ToolNames == DOMAIN Tools

\* the request body of an invocation, and the values a tool callable produces
Body == [duration_seconds |-> 2, notify_on_completion |-> TRUE]
Returns == {[status |-> "completed", duration_seconds |-> 2]}
Errors == {"boom"}

\* Parameter(**raw) (tools/core.py:19-25): name, type and description are
\* required fields, required and enum have defaults; a missing required field
\* makes the constructor raise ValidationError.
ParameterError(raw) == {"name", "type", "description"} \ DOMAIN raw # {}
Parameter(raw) ==
    [name |-> raw.name, type |-> raw.type, description |-> raw.description,
     required |-> IF "required" \in DOMAIN raw THEN raw.required ELSE TRUE,
     enum |-> IF "enum" \in DOMAIN raw THEN raw.enum ELSE None]

\* ToolSchema(name, description, parameters) (tools/core.py:27-31)
ToolSchema(name, description, parameters) ==
    [name |-> name, description |-> description, parameters |-> parameters]

\* d[k] = v on a dict
Put(d, k, v) == [x \in DOMAIN d \cup {k} |-> IF x = k THEN v ELSE d[x]]

\* d.get(k)
DictGet(d, k) == IF k \in DOMAIN d THEN Some(d[k]) ELSE None

\* ToolRegistry.__init__ (tools/core.py:56-60)
NewRegistry ==
    [tools |-> EmptyDict, implementations |-> EmptyDict, job_settings |-> EmptyDict, routers |-> EmptyDict]

\* register keeping implementation and settings of the earlier registration
register_schema_only(R, schema, implementation, settings) ==
    [R EXCEPT !.tools = Put(R.tools, schema.name, schema)]

\* ToolRegistry.register (tools/core.py:62-67 and 70-226): settings is None or
\* Some(JobSettings); the router's handlers close over the three arguments.
register(R, schema, implementation, settings) ==
    [tools |-> Put(R.tools, schema.name, schema),
     implementations |-> Put(R.implementations, schema.name, implementation),
     job_settings |-> IF settings # None THEN Put(R.job_settings, schema.name, settings[1]) ELSE R.job_settings,
     routers |-> Put(R.routers, schema.name,
                     [schema |-> schema, implementation |-> implementation, settings |-> settings])]

\* ToolRegistry.get_schema / get_implementation / get_job_settings / get_router
\* (tools/core.py:308-322)
get_schema(R, name) == DictGet(R.tools, name)
get_implementation(R, name) == DictGet(R.implementations, name)
get_job_settings(R, name) == DictGet(R.job_settings, name)
get_router(R, name) == DictGet(R.routers, name)

\* ToolRegistry.list_tools (tools/core.py:324-326): the names, without the
\* order of the list (that of first registration)
list_tools(R) == DOMAIN R.tools

\* the registry after the tool modules have been imported: every tool of the
\* model registered once by the tool decorator (tools/core.py:376-383), its
\* parameters inferred from the signature (352-372)
RECURSIVE RegisterAll(_, _)
RegisterAll(R, names) ==
    IF names = {} THEN R
    ELSE LET n == CHOOSE x \in names : TRUE
             ps == <<Parameter([name |-> "duration_seconds", type |-> "int",
                                description |-> "Parameter duration_seconds"])>>
         IN RegisterAll(register(R, ToolSchema(n, "", ps), n, Tools[n]), names \ {n})

Imported == RegisterAll(NewRegistry, ToolNames)

\* ---------------------------------------------------------------- envelope
IsDict(v) == "scalar" \notin DOMAIN v

\* Python truthiness of an optional string, an optional dict and an optional id
Truthy(o) == o # None /\ o[1] # ""
TruthyDict(o) == o # None /\ o[1] # EmptyDict
TruthyId(o) == o # None

\* the key k with the value of o, when "if o:" holds
Opt(k, o) == IF Truthy(o) THEN [x \in {k} |-> o[1]] ELSE EmptyDict
OptId(k, o) == IF TruthyId(o) THEN [x \in {k} |-> o[1]] ELSE EmptyDict

\* ToolRegistry._standardize_result (tools/core.py:228-267)
standardize_result(tool_name, status, result, parameters, is_job, job_id, error, started_at, completed_at, status_message) ==
    [tool_name |-> tool_name,
     status |-> status,
     result |-> IF IsDict(result) THEN result ELSE [value |-> result.scalar],
     parameters |-> parameters,
     is_job |-> is_job]
    @@ OptId("job_id", job_id) @@ Opt("error", error)
    @@ Opt("started_at", started_at) @@ Opt("completed_at", completed_at)
    @@ Opt("status_message", status_message)

\* tools/core.py:91-94: the notification-control keys are not passed on
ControlKeys == {"notify_on_completion", "notification_title", "notification_message"}
implementation_params(body) == [k \in DOMAIN body \ ControlKeys |-> body[k]]

\* --------------------------------------------------------------- job store
VARIABLES
    jobs,      \* JobRegistry._jobs: job id -> Job
    created,   \* number of Job objects constructed so far
    notified,  \* rumps.notification calls made, per Job object
    now,       \* the clock (datetime.now(), loop.time())
    inv,       \* the invocations: request handler, background task, response
    api,       \* the answer of the last call to a store or /jobs operation
    registry   \* the ToolRegistry: _tools, _implementations, _job_settings, _routers

vars == <<jobs, created, notified, now, inv, api, registry>>

Objs == 1..(IF MaxInv > MaxCreates THEN MaxInv ELSE MaxCreates)

\* Job(...) as constructed by JobRegistry.create_job (job_registry.py:152-163);
\* obj is the identity of the Python object.
Job(obj, job_id, tool_name, input, cancelable, notify, title, message, t) ==
    [obj |-> obj, job_id |-> job_id, tool_name |-> tool_name, input |-> input,
     status |-> PENDING, result |-> None, error |-> None,
     created_at |-> t, updated_at |-> t, owner |-> None,
     conversation_id |-> None, cancelable |-> cancelable,
     notify_on_completion |-> notify, notification_title |-> title,
     notification_message |-> message]

\* JobRegistry.create_job (job_registry.py:138-166): the record is stored under
\* the generated id, whatever was stored there.
create_job(J, job) == [k \in DOMAIN J \cup {job.job_id} |-> IF k = job.job_id THEN job ELSE J[k]]

\* JobRegistry.get_job (job_registry.py:168-170): the job, or None
get_job(J, id) == IF id \in DOMAIN J THEN Some(J[id]) ELSE None

\* Job.update stamping created_at as well
JobUpdate_restamped(job, status, result, error, t) ==
    [job EXCEPT !.status = status, !.result = result, !.error = error, !.updated_at = t, !.created_at = t]

\* Job.update assigning result and error only when they are given
JobUpdate_keeping(job, status, result, error, t) ==
    [job EXCEPT !.status = status, !.updated_at = t,
                !.result = IF result = None THEN job.result ELSE result,
                !.error = IF error = None THEN job.error ELSE error]

\* Job.update (job_registry.py:38-43): the fields are overwritten
JobUpdate(job, status, result, error, t) ==
    [job EXCEPT !.status = status, !.result = result, !.error = error, !.updated_at = t]

\* Job.update (job_registry.py:48-50): the number of notifications it sends
Notifies(job, status) ==
    IF job.notify_on_completion /\ status \in {SUCCESS, FAILED} THEN 1 ELSE 0

\* update_job applying the update to every stored job
update_job_all(J, id, status, result, error, t) ==
    [k \in DOMAIN J |-> JobUpdate(J[k], status, result, error, t)]

\* update_job storing a fresh record when the id is missing
update_job_upsert(J, id, status, result, error, t) ==
    IF id \in DOMAIN J
    THEN [J EXCEPT ![id] = JobUpdate(J[id], status, result, error, t)]
    ELSE create_job(J, JobUpdate(Job(0, id, "", EmptyDict, FALSE, FALSE, None, None, t), status, result, error, t))

\* JobRegistry.update_job (job_registry.py:172-176)
update_job(J, id, status, result, error, t) ==
    IF id \in DOMAIN J
    THEN [J EXCEPT ![id] = JobUpdate(J[id], status, result, error, t)]
    ELSE J

\* the notifications update_job(J, id, status, ...) sends, added to N
update_notes(N, J, id, status) ==
    IF id \in DOMAIN J
    THEN [N EXCEPT ![J[id].obj] = @ + Notifies(J[id], status)]
    ELSE N

\* cancel_job's test without "job.cancelable"
cancel_ok_any(J, id) ==
    id \in DOMAIN J /\ J[id].status \in {PENDING, RUNNING}

\* JobRegistry.cancel_job (job_registry.py:178-184): its return value
cancel_ok(J, id) ==
    /\ id \in DOMAIN J
    /\ J[id].cancelable
    /\ J[id].status \in {PENDING, RUNNING}

\* cancel_job without its test: the job is set CANCELLED whatever its state
cancel_job_unchecked(J, id, t) ==
    update_job(J, id, CANCELLED, None, None, t)

\* JobRegistry.cancel_job (job_registry.py:178-184): the store it leaves
cancel_job(J, id, t) ==
    IF cancel_ok(J, id) THEN update_job(J, id, CANCELLED, None, None, t) ELSE J

\* Job.get_status_message (job_registry.py:93-110): the exception it raises, if
\* any, as str(e): subscripting result raises TypeError on None and KeyError on
\* a missing key.
SubscriptError(result, key) ==
    IF result = None THEN Some("'NoneType' object is not subscriptable")
    ELSE IF key \notin DOMAIN result[1] THEN Some("'" \o key \o "'")
    ELSE None

status_message_error(job) ==
    IF job.status = SUCCESS /\ job.tool_name = "fibonacci" THEN SubscriptError(job.result, "result")
    ELSE IF job.status = SUCCESS /\ job.tool_name = "goose" THEN SubscriptError(job.result, "target")
    ELSE None

\* Job.get_status_message (job_registry.py:93-110): the text it returns
get_status_message(job) ==
    CASE job.status = PENDING -> "Waiting to start " \o job.tool_name \o " job"
      [] job.status = RUNNING -> "Currently running " \o job.tool_name \o " job"
      [] job.status = SUCCESS ->
            IF job.tool_name = "fibonacci"
            THEN "Fibonacci calculation completed. The result is " \o ToString(job.result[1].result)
            ELSE IF job.tool_name = "goose"
            THEN "Goose command completed successfully for target " \o ToString(job.result[1].target)
            ELSE job.tool_name \o " job completed successfully"
      [] job.status = FAILED ->
            "Job failed: " \o (IF job.error = None THEN "None" ELSE job.error[1])
      [] job.status = CANCELLED -> "Job was cancelled"
      [] OTHER -> "Unknown status for " \o job.tool_name \o " job"

\* ------------------------------------------------------- tool invocation
\* One invocation of execute_tool (tools/core.py:75-201). pc is the point the
\* request handler has reached, rpc the point the background task
\* (_run_job_in_background) has reached; fin/fin_at record how and when the
\* tool callable finished, ret/exc what it returned or raised, resp/resp_at
\* the HTTP response and when it was sent.
IdleInv ==
    [pc |-> "idle", tool |-> "", job_id |-> 0, t0 |-> 0, wake |-> 0,
     rpc |-> "none", fin |-> "none", fin_at |-> 0, ret |-> None, exc |-> None,
     resp |-> None, resp_at |-> 0]

\* no call answered yet; an answer names the operation, the job id and the
\* arguments it was called with, the value the store returned, and the HTTP
\* status code and body
NoCall == [op |-> "none", id |-> 0, arg |-> EmptyDict, ret |-> FALSE, code |-> 0, body |-> EmptyDict]

Http(code, body) == [code |-> code, body |-> body]

\* the exception handler answering 200 instead of raising HTTPException
HttpError_ok(msg) == Http(200, [detail |-> msg])

\* raise HTTPException(status_code=400, detail=str(e)) (tools/core.py:200-201)
HttpError(msg) == Http(400, [detail |-> msg])

Settings(tool) == Tools[tool]
HasThreshold(tool) == Settings(tool) # None /\ Settings(tool)[1].sync_threshold # None
Threshold(tool) == Settings(tool)[1].sync_threshold[1]
IsBlock(tool) == HasThreshold(tool) /\ Threshold(tool) = BlockThreshold
IsDeferred(tool) == HasThreshold(tool) /\ Threshold(tool) = 0
IsBounded(tool) == HasThreshold(tool) /\ Threshold(tool) > 0
IsDirect(tool) == ~HasThreshold(tool)

\* create_job passing cancelable=False whatever the settings say
PolicyJob_uncancelable(obj, id, tool, s, t) ==
    Job(obj, id, tool, Body, FALSE,
        s # None /\ (Truthy(s[1].notify_title) \/ Truthy(s[1].notify_message)),
        IF s # None THEN s[1].notify_title ELSE None,
        IF s # None THEN s[1].notify_message ELSE None,
        t)

\* the Job that execute_tool creates for a route registered with settings s,
\* None or Some(JobSettings) (tools/core.py:81-88)
PolicyJob(obj, id, tool, s, t) ==
    Job(obj, id, tool, Body,
        IF s # None THEN s[1].cancelable ELSE FALSE,
        s # None /\ (Truthy(s[1].notify_title) \/ Truthy(s[1].notify_message)),
        IF s # None THEN s[1].notify_title ELSE None,
        IF s # None THEN s[1].notify_message ELSE None,
        t)

\* the Job that execute_tool creates for a tool of the model
NewJob(i, id, tool) == PolicyJob(i, id, tool, Settings(tool), now)

\* JobRegistry._generate_job_id (job_registry.py:134-136): any id, one already
\* drawn included. Ids are interchangeable, so of the ids never drawn only the
\* smallest is considered.
Drawn == {inv[k].job_id : k \in {k \in Invs : inv[k].pc # "idle"}}
generate_job_id == {id \in JobIds : id \in Drawn \/ \A k \in JobIds \ Drawn : id <= k}

Returned(rec, r) == [rec EXCEPT !.fin = "returned", !.fin_at = now, !.ret = Some(r)]
Raised(rec, e) == [rec EXCEPT !.fin = "raised", !.fin_at = now, !.exc = Some(e)]
Respond(rec, resp) == [rec EXCEPT !.pc = "done", !.resp = Some(resp), !.resp_at = now]

\* the envelope of an unfinished job saying RUNNING
PendingEnvelope_running(tool, id, started_at) ==
    standardize_result(tool, RUNNING, EmptyDict, Body, TRUE, Some(id), None, started_at, None, None)

\* the PENDING envelope of tools/core.py:126-133 and 169-177
PendingEnvelope(tool, id, started_at) ==
    standardize_result(tool, PENDING, EmptyDict, Body, TRUE, Some(id), None, started_at, None, None)

\* execute_tool without the test of tools/core.py:99: the threshold -1 falls
\* through to the bounded wait, whose first poll finds elapsed >= -1 and
\* answers PENDING while the callable runs in the background.
InvokeBlock_unblocked(i, id, tool) ==
    /\ inv[i].pc = "idle" /\ i = created + 1 /\ IsBlock(tool)
    /\ LET J1 == create_job(jobs, NewJob(i, id, tool)) IN
       /\ jobs' = update_job(J1, id, RUNNING, None, None, now)
       /\ notified' = update_notes(notified, J1, id, RUNNING)
    /\ created' = created + 1
    /\ inv' = [inv EXCEPT ![i] =
                 Respond([IdleInv EXCEPT !.tool = tool, !.job_id = id, !.t0 = now, !.rpc = "scheduled"],
                         Http(200, PendingEnvelope(tool, id, Some(isoformat(now)))))]
    /\ UNCHANGED <<now, api, registry>>

\* execute_tool, sync_threshold == -1 (tools/core.py:81-102 and
\* job_utils.py:35-38): the job is created and set RUNNING, then the callable
\* is awaited.
InvokeBlock(i, id, tool) ==
    /\ inv[i].pc = "idle" /\ i = created + 1 /\ IsBlock(tool)
    /\ LET J1 == create_job(jobs, NewJob(i, id, tool)) IN
       /\ jobs' = update_job(J1, id, RUNNING, None, None, now)
       /\ notified' = update_notes(notified, J1, id, RUNNING)
    /\ created' = created + 1
    /\ inv' = [inv EXCEPT ![i] = [IdleInv EXCEPT !.pc = "block_await", !.tool = tool, !.job_id = id, !.t0 = now]]
    /\ UNCHANGED <<now, api, registry>>

\* execute_tool, falsey sync_threshold (tools/core.py:81-94 and 121-133): the
\* background task is scheduled and PENDING is returned.
InvokeDeferred(i, id, tool) ==
    /\ inv[i].pc = "idle" /\ i = created + 1 /\ IsDeferred(tool)
    /\ jobs' = create_job(jobs, NewJob(i, id, tool))
    /\ created' = created + 1
    /\ inv' = [inv EXCEPT ![i] =
                 Respond([IdleInv EXCEPT !.tool = tool, !.job_id = id, !.t0 = now, !.rpc = "scheduled"],
                         Http(200, PendingEnvelope(tool, id, None)))]
    /\ UNCHANGED <<notified, now, api, registry>>

\* execute_tool, positive sync_threshold (tools/core.py:81-94 and 136-180): the
\* background task is created, the job set RUNNING, and the first poll (job
\* RUNNING, elapsed 0) ends in asyncio.sleep(0.1).
InvokeBounded(i, id, tool) ==
    /\ inv[i].pc = "idle" /\ i = created + 1 /\ IsBounded(tool)
    /\ LET J1 == create_job(jobs, NewJob(i, id, tool)) IN
       /\ jobs' = update_job(J1, id, RUNNING, None, None, now)
       /\ notified' = update_notes(notified, J1, id, RUNNING)
    /\ created' = created + 1
    /\ inv' = [inv EXCEPT ![i] = [IdleInv EXCEPT !.pc = "polling", !.tool = tool, !.job_id = id, !.t0 = now,
                                                 !.wake = now + PollInterval, !.rpc = "scheduled"]]
    /\ UNCHANGED <<now, api, registry>>

\* execute_tool without settings or without sync_threshold (tools/core.py:81-97
\* and 187-189): the job is created and the callable is awaited directly.
InvokeDirect(i, id, tool) ==
    /\ inv[i].pc = "idle" /\ i = created + 1 /\ IsDirect(tool)
    /\ jobs' = create_job(jobs, NewJob(i, id, tool))
    /\ created' = created + 1
    /\ inv' = [inv EXCEPT ![i] = [IdleInv EXCEPT !.pc = "direct_await", !.tool = tool, !.job_id = id, !.t0 = now]]
    /\ UNCHANGED <<notified, now, api, registry>>

\* the block path's callable returns (tools/core.py:102-118): the job is set
\* SUCCESS with the standardized result, which is also the response.
BlockReturn(i, r) ==
    /\ inv[i].pc = "block_await"
    /\ LET id == inv[i].job_id
           std == standardize_result(inv[i].tool, SUCCESS, r, Body, TRUE, Some(id), None, None, None, None)
       IN /\ jobs' = update_job(jobs, id, SUCCESS, Some(std), None, now)
          /\ notified' = update_notes(notified, jobs, id, SUCCESS)
          /\ inv' = [inv EXCEPT ![i] = Respond(Returned(@, r), Http(200, std))]
    /\ UNCHANGED <<created, now, api, registry>>

\* the block path's callable raises (job_utils.py:39-46, tools/core.py:200-201):
\* job_context sets the job FAILED and re-raises; the handler answers 400.
BlockRaise(i, e) ==
    /\ inv[i].pc = "block_await"
    /\ jobs' = update_job(jobs, inv[i].job_id, FAILED, None, Some("Job failed: " \o e), now)
    /\ notified' = update_notes(notified, jobs, inv[i].job_id, FAILED)
    /\ inv' = [inv EXCEPT ![i] = Respond(Raised(@, e), HttpError(e))]
    /\ UNCHANGED <<created, now, api, registry>>

\* the directly awaited callable returns (tools/core.py:189-198)
DirectReturn(i, r) ==
    /\ inv[i].pc = "direct_await"
    /\ inv' = [inv EXCEPT ![i] = Respond(Returned(@, r),
                 Http(200, standardize_result(inv[i].tool, "success", r, Body, FALSE, None, None, None, None, None)))]
    /\ UNCHANGED <<jobs, created, notified, now, api, registry>>

\* the directly awaited callable raises (tools/core.py:189 and 200-201)
DirectRaise(i, e) ==
    /\ inv[i].pc = "direct_await"
    /\ inv' = [inv EXCEPT ![i] = Respond(Raised(@, e), HttpError(e))]
    /\ UNCHANGED <<jobs, created, notified, now, api, registry>>

\* _run_job_in_background up to the call of the callable (tools/core.py:271-280).
\* A job missing from the store makes job.status raise, which the handler at
\* 302-306 swallows: the callable is never called.
RunnerStart(i) ==
    /\ inv[i].rpc = "scheduled"
    /\ LET id == inv[i].job_id
           job == get_job(jobs, id)
       IN IF job = None
          THEN /\ inv' = [inv EXCEPT ![i].rpc = "done"]
               /\ UNCHANGED <<jobs, notified>>
          ELSE /\ inv' = [inv EXCEPT ![i].rpc = "running"]
               /\ IF job[1].status = PENDING
                  THEN /\ jobs' = update_job(jobs, id, RUNNING, None, None, now)
                       /\ notified' = update_notes(notified, jobs, id, RUNNING)
                  ELSE UNCHANGED <<jobs, notified>>
    /\ UNCHANGED <<created, now, api, registry>>

\* the write of _run_job_in_background without the test for CANCELLED
RunnerReturnWrite_unchecked(job, id, r, kwargs) ==
    IF job = None THEN None
    ELSE Some([status |-> SUCCESS, result |-> Some([value |-> r]), error |-> None])

\* the status, result and error _run_job_in_background writes when the callable
\* has returned r (tools/core.py:282-306): None when it writes nothing.
RunnerReturnWrite(job, id, r, kwargs) ==
    IF job = None THEN None
    ELSE IF job[1].status = CANCELLED THEN None
    ELSE IF status_message_error(job[1]) # None
    THEN Some([status |-> FAILED, result |-> None, error |-> status_message_error(job[1])])
    ELSE Some([status |-> SUCCESS,
               result |-> Some(standardize_result(job[1].tool_name, SUCCESS, r, kwargs, TRUE, Some(id), None,
                                  Some(isoformat(job[1].created_at)), Some(isoformat(job[1].updated_at)),
                                  Some(get_status_message(job[1])))),
               error |-> None])

\* the write of _run_job_in_background when the callable has raised e
\* (tools/core.py:302-306)
RunnerRaiseWrite(job, e) ==
    IF job # None /\ job[1].status # CANCELLED
    THEN Some([status |-> FAILED, result |-> None, error |-> Some(e)])
    ELSE None

\* the background task ends: fin is its invocation record with the callable's
\* outcome, w the write to the store (None: no write)
RunnerFinish(i, fin, w) ==
    /\ inv' = [inv EXCEPT ![i] = [fin EXCEPT !.rpc = "done"]]
    /\ IF w = None
       THEN UNCHANGED <<jobs, notified>>
       ELSE /\ jobs' = update_job(jobs, inv[i].job_id, w[1].status, w[1].result, w[1].error, now)
            /\ notified' = update_notes(notified, jobs, inv[i].job_id, w[1].status)
    /\ UNCHANGED <<created, now, api, registry>>

\* the background task's callable returns (tools/core.py:280-301)
RunnerReturn(i, r) ==
    /\ inv[i].rpc = "running"
    /\ RunnerFinish(i, Returned(inv[i], r),
          RunnerReturnWrite(get_job(jobs, inv[i].job_id), inv[i].job_id, r, implementation_params(Body)))

\* the background task's callable raises (tools/core.py:280 and 302-306)
RunnerRaise(i, e) ==
    /\ inv[i].rpc = "running"
    /\ RunnerFinish(i, Raised(inv[i], e), RunnerRaiseWrite(get_job(jobs, inv[i].job_id), e))

\* the polling loop ending on SUCCESS and FAILED only
PollOutcome_uncancelled(job, elapsed, threshold) ==
    IF job = None THEN "error"
    ELSE IF job[1].status \in {SUCCESS, FAILED}
    THEN (IF status_message_error(job[1]) # None THEN "error" ELSE "final")
    ELSE IF elapsed >= threshold THEN "pending"
    ELSE "sleep"

\* what one pass of the polling loop does with the job it reads
\* (tools/core.py:147-185): "error" (an exception: the job is set FAILED and the
\* handler answers 400), "final" (the job's envelope), "pending" or "sleep".
PollOutcome(job, elapsed, threshold) ==
    IF job = None THEN "error"
    ELSE IF job[1].status \in {SUCCESS, FAILED, CANCELLED}
    THEN (IF status_message_error(job[1]) # None THEN "error" ELSE "final")
    ELSE IF elapsed >= threshold THEN "pending"
    ELSE "sleep"

\* str(e) of the exception a pass of the polling loop raises
PollError(job) ==
    IF job = None THEN "'NoneType' object has no attribute 'status'"
    ELSE status_message_error(job[1])[1]

\* the envelope of a finished job (tools/core.py:152-163)
FinalEnvelope(tool, id, job) ==
    standardize_result(tool, job.status, IF TruthyDict(job.result) THEN job.result[1] ELSE EmptyDict,
                       Body, TRUE, Some(id), job.error, Some(isoformat(job.created_at)),
                       Some(isoformat(job.updated_at)), Some(get_status_message(job)))

\* one pass of the polling loop of a bounded-wait invocation, after its sleep
\* (tools/core.py:147-185 and 200-201)
Poll(i) ==
    /\ inv[i].pc = "polling"
    /\ now >= inv[i].wake
    /\ LET id == inv[i].job_id
           job == get_job(jobs, id)
           out == PollOutcome(job, now - inv[i].t0, Threshold(inv[i].tool))
       IN CASE out = "error" ->
                 /\ jobs' = update_job(jobs, id, FAILED, None, Some(PollError(job)), now)
                 /\ notified' = update_notes(notified, jobs, id, FAILED)
                 /\ inv' = [inv EXCEPT ![i] = Respond(@, HttpError(PollError(job)))]
            [] out = "final" ->
                 /\ inv' = [inv EXCEPT ![i] = Respond(@, Http(200, FinalEnvelope(inv[i].tool, id, job[1])))]
                 /\ UNCHANGED <<jobs, notified>>
            [] out = "pending" ->
                 /\ inv' = [inv EXCEPT ![i] = Respond(@, Http(200, PendingEnvelope(inv[i].tool, id, Some(isoformat(inv[i].t0)))))]
                 /\ UNCHANGED <<jobs, notified>>
            [] OTHER ->
                 /\ inv' = [inv EXCEPT ![i].wake = now + PollInterval]
                 /\ UNCHANGED <<jobs, notified>>
    /\ UNCHANGED <<created, now, api, registry>>

\* ---------------------------------------------------------- /jobs endpoints
\* the body of JobStatusResponse (routers/jobs.py:53-61)
JobStatusResponse(job) ==
    [job_id |-> job.job_id, tool_name |-> job.tool_name, status |-> job.status,
     status_message |-> get_status_message(job),
     created_at |-> isoformat(job.created_at), updated_at |-> isoformat(job.updated_at)]

\* JobRegistry.get_all_jobs_with_status (job_registry.py:190-199): whether
\* get_status_message raises for one of the jobs
list_raises(J) == \E id \in DOMAIN J : status_message_error(J[id]) # None

\* JobRegistry.get_all_jobs_with_status (job_registry.py:190-199): its entries
get_all_jobs_with_status(J) == {JobStatusResponse(J[id]) : id \in DOMAIN J}

\* GET /jobs (routers/jobs.py:22-26): the answer for store J
list_jobs(J) ==
    IF list_raises(J)
    THEN Http(500, [detail |-> "Internal Server Error"])
    ELSE Http(200, [jobs |-> get_all_jobs_with_status(J)])

\* POST /jobs/{job_id}/cancel (routers/jobs.py:45-61) as the engine sees it:
\* a request that cancels the job. (A refused request changes nothing.)
CancelRequest(id) ==
    /\ cancel_ok(jobs, id)
    /\ jobs' = cancel_job(jobs, id, now)
    /\ notified' = update_notes(notified, jobs, id, CANCELLED)
    /\ UNCHANGED <<created, now, inv, api, registry>>

\* POST /jobs/{job_id}/cancel (routers/jobs.py:45-61) with its answer
Cancel(id) ==
    /\ jobs' = cancel_job(jobs, id, now)
    /\ notified' = IF cancel_ok(jobs, id) THEN update_notes(notified, jobs, id, CANCELLED) ELSE notified
    /\ api' = [op |-> "cancel", id |-> id, arg |-> EmptyDict, ret |-> cancel_ok(jobs, id),
               code |-> IF cancel_ok(jobs, id) THEN 200 ELSE 404,
               body |-> IF cancel_ok(jobs, id)
                        THEN JobStatusResponse(jobs'[id])
                        ELSE [detail |-> "Job not found or not cancelable"]]
    /\ UNCHANGED <<created, now, inv, registry>>

\* DELETE /jobs/{job_id} (routers/jobs.py:63-72)
Delete(id) ==
    /\ jobs' = [k \in DOMAIN jobs \ {id} |-> jobs[k]]
    /\ api' = [op |-> "delete", id |-> id, arg |-> EmptyDict, ret |-> id \in DOMAIN jobs,
               code |-> IF id \in DOMAIN jobs THEN 200 ELSE 404,
               body |-> IF id \in DOMAIN jobs
                        THEN [message |-> "Job " \o ToString(id) \o " deleted successfully"]
                        ELSE [detail |-> "Job not found"]]
    /\ UNCHANGED <<created, notified, now, inv, registry>>

\* DELETE /jobs (routers/jobs.py:74-79)
DeleteAll ==
    /\ jobs' = EmptyDict
    /\ api' = [op |-> "delete_all", id |-> 0, arg |-> EmptyDict, ret |-> TRUE, code |-> 200,
               body |-> [message |-> "Deleted " \o ToString(Cardinality(DOMAIN jobs)) \o " jobs"]]
    /\ UNCHANGED <<created, notified, now, inv, registry>>

\* time passes while a polling loop sleeps (tools/core.py:180)
Tick ==
    /\ \E i \in Invs : inv[i].pc = "polling" /\ now < inv[i].wake
    /\ now' = now + 1
    /\ UNCHANGED <<jobs, created, notified, inv, api, registry>>

\* ------------------------------------------------------------ specification
\* JobRegistry.__init__ (job_registry.py:130-132): an empty store
Init ==
    /\ jobs = EmptyDict
    /\ created = 0
    /\ notified = [o \in Objs |-> 0]
    /\ now = 0
    /\ inv = [i \in Invs |-> IdleInv]
    /\ api = NoCall
    /\ registry = Imported

Next ==
    \/ \E i \in Invs, id \in generate_job_id, tool \in ToolNames : InvokeBlock(i, id, tool)
    \/ \E i \in Invs, id \in generate_job_id, tool \in ToolNames : InvokeDeferred(i, id, tool)
    \/ \E i \in Invs, id \in generate_job_id, tool \in ToolNames : InvokeBounded(i, id, tool)
    \/ \E i \in Invs, id \in generate_job_id, tool \in ToolNames : InvokeDirect(i, id, tool)
    \/ \E i \in Invs, r \in Returns : BlockReturn(i, r)
    \/ \E i \in Invs, e \in Errors : BlockRaise(i, e)
    \/ \E i \in Invs, r \in Returns : DirectReturn(i, r)
    \/ \E i \in Invs, e \in Errors : DirectRaise(i, e)
    \/ \E i \in Invs : RunnerStart(i)
    \/ \E i \in Invs, r \in Returns : RunnerReturn(i, r)
    \/ \E i \in Invs, e \in Errors : RunnerRaise(i, e)
    \/ \E i \in Invs : Poll(i)
    \/ \E id \in JobIds : CancelRequest(id)
    \/ Tick

Spec == Init /\ [][Next]_vars

\* The engine under a fair scheduler: the event loop resumes a polling loop
\* whose sleep is over (asyncio.sleep(0.1) returns, tools/core.py:180), and
\* time passes while one sleeps. Nothing is assumed of the tool callables.
Fairness == WF_vars(Tick) /\ \A i \in Invs : WF_vars(Poll(i))

SpecLive == Init /\ [][Next]_vars /\ Fairness

\* DELETE /jobs/{job_id} (routers/jobs.py:63-72) as the engine sees it: a
\* request that removes the record. (A request for a missing id changes
\* nothing.)
DeleteRequest(id) ==
    /\ id \in DOMAIN jobs
    /\ jobs' = [k \in DOMAIN jobs \ {id} |-> jobs[k]]
    /\ UNCHANGED <<created, notified, now, inv, api, registry>>

\* the engine with records deleted under it
NextDelete ==
    \/ Next
    \/ \E id \in JobIds : DeleteRequest(id)

SpecDelete == Init /\ [][NextDelete]_vars

\* ----------------------------------------------- store-level specification
\* The store driven directly through its operations, as the routers of
\* routers/*.py, job_utils.update_job_status and the unit tests drive it.

\* the status/result/error combinations update_job is called with
UpdateArgs ==
    {[status |-> st, result |-> None, error |-> None] : st \in JobStatus}
    \cup {[status |-> SUCCESS, result |-> Some(r), error |-> None] : r \in Returns}
    \cup {[status |-> FAILED, result |-> None, error |-> Some(e)] : e \in Errors}

\* JobRegistry.create_job called directly (job_registry.py:138-166)
StoreCreate(id, cancelable, notify) ==
    /\ created < MaxCreates
    /\ jobs' = create_job(jobs, Job(created + 1, id, "set_timer", Body, cancelable, notify, None, None, now))
    /\ created' = created + 1
    /\ api' = [op |-> "create", id |-> id, arg |-> [cancelable |-> cancelable, notify |-> notify],
               ret |-> TRUE, code |-> 0, body |-> EmptyDict]
    /\ UNCHANGED <<notified, now, inv, registry>>

\* JobRegistry.update_job called directly (job_registry.py:172-176,
\* job_utils.py:95-102)
StoreUpdate(id, a) ==
    /\ id \in DOMAIN jobs => notified[jobs[id].obj] + Notifies(jobs[id], a.status) <= MaxNotes
    /\ jobs' = update_job(jobs, id, a.status, a.result, a.error, now)
    /\ notified' = update_notes(notified, jobs, id, a.status)
    /\ api' = [op |-> "update", id |-> id, arg |-> a, ret |-> TRUE, code |-> 0, body |-> EmptyDict]
    /\ UNCHANGED <<created, now, inv, registry>>

\* time passes between two calls
StoreTick ==
    /\ now < MaxStoreTime
    /\ now' = now + 1
    /\ api' = NoCall
    /\ UNCHANGED <<jobs, created, notified, inv, registry>>

NextStore ==
    \/ \E id \in JobIds, c \in BOOLEAN, n \in BOOLEAN : StoreCreate(id, c, n)
    \/ \E id \in JobIds, a \in UpdateArgs : StoreUpdate(id, a)
    \/ \E id \in JobIds : Cancel(id)
    \/ \E id \in JobIds : Delete(id)
    \/ DeleteAll
    \/ StoreTick

SpecStore == Init /\ [][NextStore]_vars

\* ------------------------------------------------- HTTP-level specification
\* The store of the store-level specification, reached through the HTTP
\* endpoints as well: the routes register() creates per tool (tools/core.py:
\* 70-75 and 203-226) and the routes of routers/jobs.py.

\* names no tool is registered under
UnknownTools == {"nope"}

\* every route is mounted under the name of a registered tool: the handler that
\* does not look the name up
dispatch_any(name) == "execute_tool"

\* ToolRegistry.register / get_router (tools/core.py:70-75, 226 and 320-322):
\* the route POST /{name} exists for the registered names only
dispatch(name) == IF name \in ToolNames THEN "execute_tool" ELSE "not_found"

\* POST /{name} for a name that may be unregistered: without a route the
\* framework answers 404 (server.py:64-67) and no handler runs; with a route
\* execute_tool creates the job (tools/core.py:81-88).
InvokeUnregistered(name, id) ==
    /\ IF dispatch(name) = "not_found"
       THEN /\ UNCHANGED <<jobs, created>>
            /\ api' = [op |-> "invoke", id |-> 0, arg |-> [tool |-> name], ret |-> FALSE,
                       code |-> 404, body |-> [detail |-> "Not Found"]]
       ELSE /\ jobs' = create_job(jobs, Job(created + 1, id, name, Body, FALSE, FALSE, None, None, now))
            /\ created' = created + 1
            /\ api' = [op |-> "invoke", id |-> id, arg |-> [tool |-> name], ret |-> TRUE,
                       code |-> 200, body |-> EmptyDict]
    /\ UNCHANGED <<notified, now, inv, registry>>

\* _send_notification without its try/except: a failing delivery raises
send_notification_unguarded(delivers) == IF delivers THEN "sent" ELSE "raised"

\* Job._send_notification (job_registry.py:80-91): whatever raises inside, the
\* delivery by rumps.notification included, is caught and printed
send_notification(delivers) == IF delivers THEN "sent" ELSE "swallowed"

\* Job.update (job_registry.py:38-50) raises what _send_notification raises
update_raises(job, status, delivers) ==
    Notifies(job, status) = 1 /\ send_notification(delivers) = "raised"

\* JobRegistry.update_job (job_registry.py:172-176) on a job that notifies,
\* while the delivery of the notification fails: the fields are assigned
\* (job_registry.py:40-43) before the notification is attempted.
StoreUpdateUndelivered(id, a) ==
    /\ id \in DOMAIN jobs
    /\ Notifies(jobs[id], a.status) = 1
    /\ notified[jobs[id].obj] + 1 <= MaxNotes
    /\ jobs' = update_job(jobs, id, a.status, a.result, a.error, now)
    /\ notified' = update_notes(notified, jobs, id, a.status)
    /\ api' = [op |-> "update_undelivered", id |-> id, arg |-> a,
               ret |-> ~update_raises(jobs[id], a.status, FALSE), code |-> 0, body |-> EmptyDict]
    /\ UNCHANGED <<created, now, inv, registry>>

\* the owner and conversation a job_router request names (job_utils.py:10-13)
Owners == {[owner |-> None, conversation_id |-> None],
           [owner |-> Some("alice"), conversation_id |-> Some("conv-1")]}

\* a Job constructor that forgets the owner and the conversation
OwnedJob_dropped(job, owner, conversation_id) == job

\* Job(...) with the owner and conversation_id create_job passes on
\* (job_registry.py:156-157)
OwnedJob(job, owner, conversation_id) ==
    [job EXCEPT !.owner = owner, !.conversation_id = conversation_id]

\* create_job as the job_router wrapper calls it (job_utils.py:68-74), followed
\* by get_job on the id of the job it returned (job_registry.py:168-170)
CreateAndGet(id, o, cancelable) ==
    /\ created < MaxCreates
    /\ jobs' = create_job(jobs, OwnedJob(Job(created + 1, id, "test_tool", Body, cancelable, FALSE, None, None, now),
                                         o.owner, o.conversation_id))
    /\ created' = created + 1
    /\ api' = [op |-> "create_get", id |-> id,
               arg |-> [tool_name |-> "test_tool", input |-> Body, owner |-> o.owner,
                        conversation_id |-> o.conversation_id, cancelable |-> cancelable],
               ret |-> get_job(jobs', id) # None, code |-> 0,
               body |-> IF get_job(jobs', id) # None THEN get_job(jobs', id)[1] ELSE EmptyDict]
    /\ UNCHANGED <<notified, now, inv, registry>>

\* a status lookup that answers 200 whatever the id
job_status_answer_ok(J, id) == Http(200, EmptyDict)

\* GET /jobs/{job_id} (routers/jobs.py:28-43): the answer for store J; an
\* exception of get_status_message becomes a 500 (server.py:72-75)
job_status_answer(J, id) ==
    IF get_job(J, id) = None THEN Http(404, [detail |-> "Job not found"])
    ELSE IF status_message_error(J[id]) # None THEN Http(500, [detail |-> "Internal Server Error"])
    ELSE Http(200, JobStatusResponse(J[id]))

\* GET /jobs/{job_id} (routers/jobs.py:28-43)
GetJobStatus(id) ==
    /\ api' = [op |-> "job_status", id |-> id, arg |-> EmptyDict, ret |-> get_job(jobs, id) # None,
               code |-> job_status_answer(jobs, id).code, body |-> job_status_answer(jobs, id).body]
    /\ UNCHANGED <<jobs, created, notified, now, inv, registry>>

\* register() adds the status route of a tool only when its settings carry a
\* job_timeout or a sync_threshold (tools/core.py:204)
HasStatusRoute(tool) ==
    /\ Settings(tool) # None
    /\ Settings(tool)[1].job_timeout # None \/ Settings(tool)[1].sync_threshold # None

\* the envelope of the status poll (tools/core.py:213-224)
StatusEnvelope(tool, job) ==
    standardize_result(tool, job.status, IF TruthyDict(job.result) THEN job.result[1] ELSE EmptyDict,
                       job.input, TRUE, Some(job.job_id), job.error, Some(isoformat(job.created_at)),
                       IF job.status \in {SUCCESS, FAILED, CANCELLED} THEN Some(isoformat(job.updated_at)) ELSE None,
                       Some(get_status_message(job)))

\* GET /{tool}/status/{job_id} (tools/core.py:203-224): the answer for store J
status_answer(J, tool, id) ==
    IF ~HasStatusRoute(tool) THEN Http(404, [detail |-> "Not Found"])
    ELSE IF get_job(J, id) = None THEN Http(404, [detail |-> "Job not found"])
    ELSE IF status_message_error(J[id]) # None THEN Http(500, [detail |-> "Internal Server Error"])
    ELSE Http(200, StatusEnvelope(tool, J[id]))

\* GET /{tool}/status/{job_id} (tools/core.py:203-224)
GetStatus(tool, id) ==
    /\ api' = [op |-> "status", id |-> id, arg |-> [tool |-> tool], ret |-> get_job(jobs, id) # None,
               code |-> status_answer(jobs, tool, id).code, body |-> status_answer(jobs, tool, id).body]
    /\ UNCHANGED <<jobs, created, notified, now, inv, registry>>

NextApi ==
    \/ NextStore
    \/ \E name \in UnknownTools, id \in JobIds : InvokeUnregistered(name, id)
    \/ \E id \in JobIds, a \in UpdateArgs : StoreUpdateUndelivered(id, a)
    \/ \E id \in JobIds, o \in Owners, c \in BOOLEAN : CreateAndGet(id, o, c)

SpecApi == Init /\ [][NextApi]_vars

\* The lookups by job id: the store operations that fill and change the store,
\* and the four endpoints that take a job id.
NextLookup ==
    \/ \E id \in JobIds, c \in BOOLEAN, n \in BOOLEAN : StoreCreate(id, c, n)
    \/ \E id \in JobIds, a \in UpdateArgs : StoreUpdate(id, a)
    \/ \E id \in JobIds : Cancel(id)
    \/ \E id \in JobIds : Delete(id)
    \/ \E id \in JobIds : GetJobStatus(id)
    \/ \E tool \in ToolNames, id \in JobIds : GetStatus(tool, id)

SpecLookup == Init /\ [][NextLookup]_vars

\* ---------------------------------------------------- registry specification
\* The ToolRegistry driven through register and its lookups, as the tool
\* decorator and the unit tests of the registry drive it.

\* the names registered: one that the imported modules registered, one new
RegNames == {"fibonacci", "test_tool"}

\* the parameter declarations of a schema, as keyword arguments of
\* Parameter(...): none, one, two of the same name, one without description
RawP1 == [name |-> "param1", type |-> "string", description |-> "Test parameter", required |-> TRUE]
RawP1Again == [name |-> "param1", type |-> "integer", description |-> "Another parameter"]
RawUndescribed == [name |-> "param2", type |-> "string"]
RawParameters == {<<>>, <<RawP1>>, <<RawP1, RawP1Again>>, <<RawUndescribed>>}

Implementations == {"implementation", "implementation2"}

RegSettings ==
    {None, Some(JobSettings(Some(D), TRUE, None, None)), Some(JobSettings(Some(0), FALSE, None, None))}

\* the lookups of a name (tools/core.py:308-326)
Lookups(R, name) ==
    [schema |-> get_schema(R, name), implementation |-> get_implementation(R, name),
     settings |-> get_job_settings(R, name), router |-> get_router(R, name),
     listed |-> name \in list_tools(R)]

\* whether building the schema raises pydantic's ValidationError
SchemaError(raw) == \E k \in DOMAIN raw : ParameterError(raw[k])

\* the schema is built (Parameter(...), ToolSchema(...)) and registered, as in
\* tools/core.py:376-383 and test_tool_registry.py:15-33; then the name is
\* looked up. A ValidationError leaves before register is called.
Register(name, raw, implementation, settings) ==
    /\ IF SchemaError(raw)
       THEN /\ UNCHANGED registry
            /\ api' = [op |-> "register", id |-> 0,
                       arg |-> [name |-> name, parameters |-> raw, implementation |-> implementation,
                                settings |-> settings, known |-> name \in list_tools(registry)],
                       ret |-> FALSE, code |-> 0, body |-> Lookups(registry, name)]
       ELSE LET schema == ToolSchema(name, "Test tool", [k \in DOMAIN raw |-> Parameter(raw[k])])
            IN /\ registry' = register(registry, schema, implementation, settings)
               /\ api' = [op |-> "register", id |-> 0,
                          arg |-> [name |-> name, schema |-> schema, parameters |-> raw,
                                   implementation |-> implementation, settings |-> settings,
                                   known |-> name \in list_tools(registry)],
                          ret |-> TRUE, code |-> 0, body |-> Lookups(registry', name)]
    /\ UNCHANGED <<jobs, created, notified, now, inv>>

\* the lookups of a name, registered or not (tools/core.py:308-326)
Lookup(name) ==
    /\ api' = [op |-> "lookup", id |-> 0, arg |-> [name |-> name, known |-> name \in list_tools(registry)],
               ret |-> TRUE, code |-> 0, body |-> Lookups(registry, name)]
    /\ UNCHANGED <<jobs, created, notified, now, inv, registry>>

NextRegistry ==
    \/ \E name \in RegNames, raw \in RawParameters, f \in Implementations, s \in RegSettings : Register(name, raw, f, s)
    \/ \E name \in RegNames \cup UnknownTools : Lookup(name)

SpecRegistry == Init /\ [][NextRegistry]_vars

\* ------------------------------------------------------ policy specification
\* create_job as execute_tool calls it (tools/core.py:81-88), for every policy
\* a tool can be registered with.

\* the policies: none, or JobSettings with or without a threshold, a title
\* (absent, empty or not) and a message template
Policies ==
    {None} \cup
    {Some(JobSettings(st, c, title, msg)) :
        st \in {None, Some(0)}, c \in BOOLEAN,
        title \in {None, Some(""), Some("Done")},
        msg \in {None, Some("Finished {duration_seconds}")}}

\* execute_tool's call of create_job for a tool registered with policy s
\* (tools/core.py:81-88), followed by get_job
CreateForPolicy(id, s) ==
    /\ created < MaxCreates
    /\ jobs' = create_job(jobs, PolicyJob(created + 1, id, "test_tool", s, now))
    /\ created' = created + 1
    /\ api' = [op |-> "policy_create", id |-> id, arg |-> [settings |-> s], ret |-> TRUE, code |-> 0,
               body |-> get_job(jobs', id)[1]]
    /\ UNCHANGED <<notified, now, inv, registry>>

\* request bodies that name an owner and a conversation (job_utils.py:10-13)
Bodies ==
    {Body,
     Body @@ [owner |-> "alice"],
     Body @@ [owner |-> "alice", conversation_id |-> "conv-1"]}

\* the Job that execute_tool creates for request body b: create_job is given
\* input=body and neither owner nor conversation_id (tools/core.py:81-88)
BodyJob(obj, id, tool, b, s, t) == [PolicyJob(obj, id, tool, s, t) EXCEPT !.input = b]

\* execute_tool up to the call of the callable, for request body b
\* (tools/core.py:78-94): the job it creates and the keyword arguments it
\* builds for the callable
CreateForBody(id, b) ==
    /\ created < MaxCreates
    /\ jobs' = create_job(jobs, BodyJob(created + 1, id, "test_tool", b, None, now))
    /\ created' = created + 1
    /\ api' = [op |-> "body_create", id |-> id, arg |-> [body |-> b], ret |-> TRUE, code |-> 0,
               body |-> [job |-> get_job(jobs', id)[1], kwargs |-> implementation_params(b)]]
    /\ UNCHANGED <<notified, now, inv, registry>>

NextPolicy ==
    \/ \E id \in JobIds, s \in Policies : CreateForPolicy(id, s)
    \/ \E id \in JobIds, b \in Bodies : CreateForBody(id, b)

SpecPolicy == Init /\ [][NextPolicy]_vars

\* ------------------------------------------------------------------ claims
\* the invocations made so far
Made == {i \in Invs : inv[i].pc # "idle"}

\* the Job object invocation i created is still the one stored under its id
Alive(i) == inv[i].job_id \in DOMAIN jobs /\ jobs[inv[i].job_id].obj = i

\* the job record of invocation i
JobOf(i) == jobs[inv[i].job_id]

\* no other invocation drew the job id of invocation i
Sole(i) == \A k \in Made \ {i} : inv[k].job_id # inv[i].job_id

\* C1: once a job is CANCELLED its status stays CANCELLED, whatever the tool
\* callable does afterwards, in every invocation path. (A cancelled job is one
\* on which cancel_job returned true: nothing else sets CANCELLED.)
C1_CancelledStaysCancelled ==
    [][\A id \in DOMAIN jobs \cap DOMAIN jobs' :
          (jobs[id].status = CANCELLED /\ jobs'[id].obj = jobs[id].obj)
             => jobs'[id].status = CANCELLED]_vars

\* C2: an invocation of a block tool (sync_threshold -1) is answered only once
\* the callable has finished, never with a PENDING envelope, and the status in
\* the envelope is the status the stored job has at that moment, a terminal one.
C2_BlockNeverPending ==
    [][\A i \in Invs :
          (inv[i].resp = None /\ inv'[i].resp # None /\ IsBlock(inv'[i].tool))
             => /\ inv'[i].fin # "none"
                /\ inv'[i].resp[1].code = 200 =>
                      /\ inv'[i].resp[1].body.status # PENDING
                      /\ inv'[i].resp[1].body.status \in Terminal
                      /\ inv'[i].job_id \in DOMAIN jobs'
                      /\ jobs'[inv'[i].job_id].status = inv'[i].resp[1].body.status]_vars

\* C2 witness: a block invocation has been answered with an envelope
C2_Witness ==
    \E i \in Made : IsBlock(inv[i].tool) /\ inv[i].resp # None /\ inv[i].resp[1].code = 200

\* C3: an invocation of a tool whose sync_threshold is 0 or absent is answered
\* with a PENDING envelope naming the job it created, a job of the store, and
\* once the callable has terminated the job has a terminal status.
C3_DeferredReturnsPending ==
    \A i \in Made :
       (IsDeferred(inv[i].tool) \/ IsDirect(inv[i].tool))
          => /\ inv[i].resp # None =>
                   /\ inv[i].resp[1].code = 200
                   /\ inv[i].resp[1].body.status = PENDING
                   /\ "job_id" \in DOMAIN inv[i].resp[1].body
                   /\ inv[i].resp[1].body.job_id = inv[i].job_id
                   /\ inv[i].resp_at = inv[i].t0
             /\ inv[i].job_id \in DOMAIN jobs
             /\ (inv[i].fin # "none" /\ Alive(i)) => JobOf(i).status \in Terminal

\* C4: when the callable of a bounded-wait invocation finishes before the
\* threshold has elapsed, the response is the envelope of the finished job,
\* not PENDING, and it is sent before the threshold has elapsed. (Read for the
\* jobs whose id no other invocation drew.)
C4_FinishedWithinThreshold ==
    \A i \in Made :
       (/\ IsBounded(inv[i].tool)
        /\ Sole(i)
        /\ inv[i].fin # "none"
        /\ inv[i].fin_at - inv[i].t0 < Threshold(inv[i].tool)
        /\ inv[i].resp # None)
          => /\ inv[i].resp[1].code = 200
             /\ inv[i].resp[1].body.status \in Terminal
             /\ inv[i].resp_at - inv[i].t0 < Threshold(inv[i].tool)

\* C5: when the callable of a bounded-wait invocation is still running as the
\* handler answers, the answer is a PENDING envelope with the job id, sent no
\* earlier than the threshold; and once the callable has returned after such
\* an answer the stored job is SUCCESS and the job list shows it so. (Read for
\* the jobs nobody cancelled and whose id no other invocation drew.)
C5_ExceededThreshold ==
    \A i \in Made :
       (/\ IsBounded(inv[i].tool)
        /\ inv[i].resp # None
        /\ Sole(i)
        /\ JobOf(i).status # CANCELLED)
          => /\ (inv[i].fin = "none" \/ inv[i].fin_at > inv[i].resp_at) =>
                   /\ inv[i].resp[1].code = 200
                   /\ inv[i].resp[1].body.status = PENDING
                   /\ "job_id" \in DOMAIN inv[i].resp[1].body
                   /\ inv[i].resp[1].body.job_id = inv[i].job_id
                   /\ inv[i].resp_at - inv[i].t0 >= Threshold(inv[i].tool)
             /\ (/\ inv[i].fin = "returned"
                 /\ inv[i].resp[1].code = 200
                 /\ inv[i].resp[1].body.status = PENDING) =>
                   /\ JobOf(i).status = SUCCESS
                   /\ list_jobs(jobs).code = 200
                   /\ \E e \in list_jobs(jobs).body.jobs :
                         e.job_id = inv[i].job_id /\ e.status = SUCCESS

\* C6: create_job stores the new job under an id no stored job has: the store
\* grows by one record and every record it held is kept.
C6_CreateNeverCollides ==
    [][api'.op = "create"
          => /\ api'.id \notin DOMAIN jobs
             /\ Cardinality(DOMAIN jobs') = Cardinality(DOMAIN jobs) + 1
             /\ \A id \in DOMAIN jobs : id \in DOMAIN jobs' /\ jobs'[id] = jobs[id]]_vars

\* C7: update_job with a non-terminal status on a job in a terminal status
\* leaves the job's status unchanged.
C7_NoTerminalToNonTerminal ==
    [][(/\ api'.op = "update"
        /\ api'.id \in DOMAIN jobs
        /\ jobs[api'.id].status \in Terminal
        /\ api'.arg.status \in {PENDING, RUNNING})
          => jobs'[api'.id].status = jobs[api'.id].status]_vars

\* C8: cancel_job(id) returns true exactly when the job exists, is cancelable
\* and is PENDING or RUNNING; the job is then CANCELLED and the cancel endpoint
\* answers with status cancelled and the same job id.
C8_CancelSucceedsExactlyWhen ==
    [][api'.op = "cancel"
          => /\ api'.ret <=> (/\ api'.id \in DOMAIN jobs
                              /\ jobs[api'.id].cancelable
                              /\ jobs[api'.id].status \in {PENDING, RUNNING})
             /\ api'.ret => (/\ api'.id \in DOMAIN jobs'
                             /\ jobs'[api'.id].status = CANCELLED
                             /\ api'.code = 200
                             /\ api'.body.status = "cancelled"
                             /\ api'.body.job_id = api'.id)]_vars

\* C8 witness: a cancel request has succeeded and the job is CANCELLED
C8_Witness ==
    /\ api.op = "cancel" /\ api.ret
    /\ api.id \in DOMAIN jobs /\ jobs[api.id].status = CANCELLED

\* C9: cancel_job on a job that is not cancelable or already terminal returns
\* false (the endpoint answers 404) and leaves the whole store as it was.
C9_RefusedCancelChangesNothing ==
    [][(/\ api'.op = "cancel"
        /\ api'.id \in DOMAIN jobs
        /\ ~jobs[api'.id].cancelable \/ jobs[api'.id].status \in Terminal)
          => /\ ~api'.ret
             /\ api'.code = 404
             /\ jobs' = jobs
             /\ notified' = notified]_vars

\* C9 witness: a cancel request on a cancelable job in a terminal status, made
\* after the job's last update, has been refused
C9_Witness ==
    /\ api.op = "cancel" /\ ~api.ret
    /\ api.id \in DOMAIN jobs
    /\ jobs[api.id].cancelable
    /\ jobs[api.id].status \in Terminal
    /\ jobs[api.id].updated_at < now

\* C10: when the callable has raised and the job is not cancelled, the job is
\* FAILED and its error is the exception's message.
C10_RaiseMakesFailed ==
    \A i \in Made :
       (inv[i].fin = "raised" /\ Alive(i) /\ JobOf(i).status # CANCELLED)
          => /\ JobOf(i).status = FAILED
             /\ JobOf(i).error = inv[i].exc

C12_NoJobLeftPending ==
    \A i \in Made :
       (inv[i].pc = "done" /\ inv[i].rpc \in {"none", "done"} /\ Alive(i))
          => JobOf(i).status # PENDING

\* C13: invoking a name no tool is registered under is answered with an error
\* at once and creates no job: the store is the same before and after.
C13_UnregisteredCreatesNoJob ==
    [][(api'.op = "invoke" /\ api'.arg.tool \notin ToolNames)
          => /\ api'.code = 404
             /\ jobs' = jobs
             /\ created' = created]_vars

\* C13 witness: an unregistered name has been invoked on a store holding a job
C13_Witness ==
    /\ api.op = "invoke" /\ api.arg.tool \notin ToolNames /\ api.code = 404
    /\ jobs # EmptyDict

\* C14: a job with the notify_on_completion flag emits exactly one
\* notification over its life, when it first becomes SUCCESS or FAILED, and
\* none while it is PENDING, RUNNING or CANCELLED without having finished; a
\* job without the flag emits none. (Read for the jobs whose id no other
\* invocation drew; notified counts the notifications per Job object.)
C14_NotifiedExactlyOnce ==
    \A i \in Made :
       Sole(i)
          => /\ ~JobOf(i).notify_on_completion => notified[i] = 0
             /\ notified[i] <= 1
             /\ JobOf(i).status \in {SUCCESS, FAILED} /\ JobOf(i).notify_on_completion
                   => notified[i] = 1
             /\ JobOf(i).status \in {PENDING, RUNNING} => notified[i] = 0

\* C15: when the delivery of a notification fails, the update_job call that
\* triggered it returns normally and the job's status, result and error are
\* the ones that call set.
C15_DeliveryFailureSwallowed ==
    [][api'.op = "update_undelivered"
          => /\ api'.ret
             /\ api'.id \in DOMAIN jobs'
             /\ jobs'[api'.id].status = api'.arg.status
             /\ jobs'[api'.id].result = api'.arg.result
             /\ jobs'[api'.id].error = api'.arg.error]_vars

\* C15 witness: an update to SUCCESS with a result, on a job that notifies, has
\* returned although the delivery failed
C15_Witness ==
    /\ api.op = "update_undelivered" /\ api.ret
    /\ api.id \in DOMAIN jobs
    /\ jobs[api.id].notify_on_completion
    /\ jobs[api.id].status = SUCCESS /\ jobs[api.id].result # None

\* C16: get_status_message raises for no job, whatever its status, tool name
\* and result. (Checked on the jobs whose id no other invocation drew.)
C16_StatusMessageNeverRaises ==
    \A i \in Made : Sole(i) => status_message_error(JobOf(i)) = None

\* C17: every envelope an invocation is answered with carries the tool name,
\* the status, a result mapping, the request's parameters and the is_job flag,
\* and the id of the job that was created for the call.
C17_EnvelopeFields ==
    \A i \in Made :
       (inv[i].resp # None /\ inv[i].resp[1].code = 200)
          => /\ {"tool_name", "status", "result", "parameters", "is_job"} \subseteq DOMAIN inv[i].resp[1].body
             /\ inv[i].resp[1].body.tool_name = inv[i].tool
             /\ IsDict(inv[i].resp[1].body.result)
             /\ inv[i].resp[1].body.parameters = Body
             /\ "job_id" \in DOMAIN inv[i].resp[1].body
             /\ inv[i].resp[1].body.job_id = inv[i].job_id

\* C18: when the callable of a bounded-wait invocation returned a mapping and
\* the invocation is answered with a SUCCESS envelope, the envelope's result is
\* the returned mapping: every key the callable returned is a key of it, with
\* the same value. (Read for the jobs whose id no other invocation drew.)
C18_ResultIsReturnedMapping ==
    \A i \in Made :
       (/\ IsBounded(inv[i].tool) /\ Sole(i)
        /\ inv[i].fin = "returned"
        /\ inv[i].resp # None /\ inv[i].resp[1].code = 200
        /\ inv[i].resp[1].body.status = SUCCESS)
          => \A k \in DOMAIN inv[i].ret[1] :
                /\ k \in DOMAIN inv[i].resp[1].body.result
                /\ inv[i].resp[1].body.result[k] = inv[i].ret[1][k]

\* C19: a job fetched by its id right after create_job has the tool_name,
\* input, owner, conversation_id and cancelable passed to create_job, status
\* PENDING and neither result nor error.
C19_CreateGetRoundTrip ==
    [][api'.op = "create_get"
          => /\ api'.ret
             /\ api'.body.job_id = api'.id
             /\ api'.body.tool_name = api'.arg.tool_name
             /\ api'.body.input = api'.arg.input
             /\ api'.body.owner = api'.arg.owner
             /\ api'.body.conversation_id = api'.arg.conversation_id
             /\ api'.body.cancelable = api'.arg.cancelable
             /\ api'.body.status = PENDING
             /\ api'.body.result = None
             /\ api'.body.error = None]_vars

\* C19 witness: the second job created, cancelable and with an owner, has been
\* fetched
C19_Witness ==
    /\ api.op = "create_get" /\ api.ret
    /\ api.arg.owner # None /\ api.arg.cancelable
    /\ created = 2
    /\ jobs[api.id].owner = api.arg.owner

\* C20: for a job id that is not in the store, the status poll of a tool, the
\* status, cancel and delete endpoints of /jobs each answer 404 and leave the
\* store as it was.
C20_UnknownIdNotFound ==
    [][(api'.op \in {"status", "job_status", "cancel", "delete"} /\ api'.id \notin DOMAIN jobs)
          => /\ api'.code = 404
             /\ jobs' = jobs
             /\ notified' = notified
             /\ created' = created]_vars

\* C20 witness: the status of an id that is not in a non-empty store has been
\* asked for
C20_Witness ==
    /\ api.op = "job_status" /\ api.id \notin DOMAIN jobs /\ api.code = 404
    /\ jobs # EmptyDict

\* C21: update_job on an id that is not in the store changes nothing, and a
\* step of an invocation whose job id is not in the store (the callable
\* returning or raising, the background task starting, a poll) leaves the
\* store and the notifications as they were: the record is not recreated and
\* no other record is altered.
C21_AbsentIdChangesNothing ==
    /\ [](\A id \in JobIds \ DOMAIN jobs, a \in UpdateArgs :
             update_job(jobs, id, a.status, a.result, a.error, now) = jobs)
    /\ [][\A i \in Made :
             (inv'[i] # inv[i] /\ inv[i].job_id \notin DOMAIN jobs)
                => jobs' = jobs /\ notified' = notified]_vars

\* C21 witness: the job of a bounded-wait invocation was missing at a poll,
\* its callable returned later, and the store holds another record but none
\* under the id of the deleted job
C21_Witness ==
    \E i \in Made :
       /\ IsBounded(inv[i].tool)
       /\ inv[i].resp # None /\ inv[i].resp[1].code = 400
       /\ inv[i].fin = "returned" /\ inv[i].fin_at > inv[i].resp_at
       /\ inv[i].job_id \notin DOMAIN jobs
       /\ jobs # EmptyDict

\* C22: after a register call, the lookups of the name return the schema, the
\* callable and the policy of that call, the most recent one for the name: when
\* it gave no policy, get_job_settings returns none.
C22_LastRegistrationWins ==
    [][(api'.op = "register" /\ api'.ret)
          => /\ api'.body.schema = Some(api'.arg.schema)
             /\ api'.body.implementation = Some(api'.arg.implementation)
             /\ api'.body.settings = api'.arg.settings]_vars

C24_MalformedSchemaRejected ==
    [][api'.op = "register"
          => /\ ~api'.ret <=>
                   \/ \E j, k \in DOMAIN api'.arg.parameters :
                         j # k /\ api'.arg.parameters[j].name = api'.arg.parameters[k].name
                   \/ \E k \in DOMAIN api'.arg.parameters :
                         "description" \notin DOMAIN api'.arg.parameters[k]
             /\ ~api'.ret => registry' = registry]_vars

\* C25: GET /jobs answers with exactly the jobs of the store: every job an
\* invocation created (none is deleted in this specification) appears in the
\* list, with its current status, and the list has no other entry. (Read for
\* the runs in which no job id was drawn twice.)
C25_ListIsStore ==
    (\A i \in Made : Sole(i))
       => /\ list_jobs(jobs).code = 200
          /\ \A i \in Made :
                \E e \in list_jobs(jobs).body.jobs :
                   e.job_id = inv[i].job_id /\ e.status = JobOf(i).status
          /\ Cardinality(list_jobs(jobs).body.jobs) = Cardinality(Made)

\* the status changes of the job state machine
AllowedChanges ==
    {<<PENDING, RUNNING>>, <<PENDING, CANCELLED>>, <<RUNNING, SUCCESS>>,
     <<RUNNING, FAILED>>, <<RUNNING, CANCELLED>>}

\* C26: under invocations, the background task and cancel requests, every
\* change of a job's status is PENDING->RUNNING, PENDING->CANCELLED,
\* RUNNING->SUCCESS, RUNNING->FAILED or RUNNING->CANCELLED. (Read for the runs
\* in which no job id was drawn twice.)
C26_OnlyAllowedChanges ==
    [][(\A i \in Made : Sole(i))
          => \A id \in DOMAIN jobs \cap DOMAIN jobs' :
                (jobs'[id].obj = jobs[id].obj /\ jobs'[id].status # jobs[id].status)
                   => <<jobs[id].status, jobs'[id].status>> \in AllowedChanges]_vars

\* C27: a job run by the background task (sync_threshold 0 or positive) that
\* has been cancelled stays CANCELLED through every later step: the task does
\* not set it RUNNING when it starts and writes neither SUCCESS nor FAILED
\* when the callable finishes. (Read for the jobs whose id no other invocation
\* drew.)
C27_RunnerKeepsCancelled ==
    [][\A i \in Made :
          (/\ IsDeferred(inv[i].tool) \/ IsBounded(inv[i].tool)
           /\ Sole(i) /\ Alive(i)
           /\ JobOf(i).status = CANCELLED
           /\ inv[i].job_id \in DOMAIN jobs' /\ jobs'[inv[i].job_id].obj = i)
             => jobs'[inv[i].job_id] = JobOf(i)]_vars

\* C27 witness: the background task of a cancelled job has finished after the
\* callable returned, and the job is CANCELLED
C27_Witness ==
    \E i \in Made :
       /\ IsDeferred(inv[i].tool) /\ Sole(i) /\ Alive(i)
       /\ inv[i].rpc = "done" /\ inv[i].fin = "returned"
       /\ JobOf(i).status = CANCELLED

\* C28: when the job of a bounded-wait invocation is CANCELLED as the polling
\* loop makes its next pass, that pass answers with a CANCELLED envelope naming
\* the job, whether or not the threshold has elapsed. (Read for the jobs whose
\* id no other invocation drew.)
C28_CancelEndsTheWait ==
    [][\A i \in Made :
          (/\ inv[i].pc = "polling"
           /\ inv'[i].pc # "polling" \/ inv'[i].wake # inv[i].wake
           /\ Sole(i) /\ Alive(i)
           /\ JobOf(i).status = CANCELLED)
             => /\ inv'[i].pc = "done"
                /\ inv'[i].resp[1].code = 200
                /\ inv'[i].resp[1].body.status = CANCELLED
                /\ inv'[i].resp[1].body.job_id = inv[i].job_id
                /\ inv'[i].resp_at = now]_vars

\* C28 witness: a bounded-wait invocation whose callable never finished has
\* been answered CANCELLED before the threshold elapsed
C28_Witness ==
    \E i \in Made :
       /\ IsBounded(inv[i].tool) /\ Sole(i)
       /\ inv[i].fin = "none"
       /\ inv[i].resp # None /\ inv[i].resp[1].code = 200
       /\ inv[i].resp[1].body.status = CANCELLED
       /\ inv[i].resp_at - inv[i].t0 < Threshold(inv[i].tool)

\* C29: a bounded-wait invocation that is polling is answered in the end,
\* whether or not its callable finishes, and the answer is an envelope: that
\* of a finished job, or PENDING once the threshold has elapsed. (The kind of
\* answer is read for the jobs whose id no other invocation drew.)
C29_BoundedWaitReturns ==
    \A i \in Invs :
       (inv[i].pc = "polling")
          ~> (/\ inv[i].pc = "done"
              /\ Sole(i) =>
                    /\ inv[i].resp[1].code = 200
                    /\ \/ inv[i].resp[1].body.status \in {SUCCESS, FAILED, CANCELLED}
                       \/ /\ inv[i].resp[1].body.status = PENDING
                          /\ inv[i].resp_at - inv[i].t0 >= Threshold(inv[i].tool))

\* C30: no step changes the job_id, tool_name, input, owner, conversation_id,
\* cancelable or created_at of a job: update_job, cancel_job and every step
\* of the engine leave them as create_job set them.
C30_CreationFieldsKept ==
    [][\A id \in DOMAIN jobs \cap DOMAIN jobs' :
          jobs'[id].obj = jobs[id].obj
             => /\ jobs'[id].job_id = jobs[id].job_id
                /\ jobs'[id].tool_name = jobs[id].tool_name
                /\ jobs'[id].input = jobs[id].input
                /\ jobs'[id].owner = jobs[id].owner
                /\ jobs'[id].conversation_id = jobs[id].conversation_id
                /\ jobs'[id].cancelable = jobs[id].cancelable
                /\ jobs'[id].created_at = jobs[id].created_at]_vars

\* C30 witness: a job updated after the instant of its creation, set SUCCESS
\* by the background task, has the fields the invocation created it with
C30_Witness ==
    \E i \in Made :
       /\ Sole(i) /\ Alive(i)
       /\ JobOf(i).status = SUCCESS
       /\ JobOf(i).updated_at > JobOf(i).created_at
       /\ JobOf(i).created_at = inv[i].t0
       /\ JobOf(i).tool_name = inv[i].tool
       /\ JobOf(i).input = Body

\* C31: in every state the engine reaches, a stored job has a result only if
\* its status is SUCCESS and an error only if its status is FAILED.
C31_ResultAndErrorMatchStatus ==
    \A id \in DOMAIN jobs :
       /\ jobs[id].result # None => jobs[id].status = SUCCESS
       /\ jobs[id].error # None => jobs[id].status = FAILED

\* C31 witness: a job whose callable returned, stored SUCCESS with a result by
\* the background task, was set FAILED afterwards and has an error and no
\* result
C31_Witness ==
    \E i \in Made :
       /\ Sole(i) /\ Alive(i)
       /\ IsBounded(inv[i].tool) /\ inv[i].fin = "returned"
       /\ JobOf(i).status = FAILED
       /\ JobOf(i).error # None /\ JobOf(i).result = None

\* C32: a job created by invoking a tool has the cancelable flag of the tool's
\* policy (false without a policy), the policy's notification title and
\* message template (none without a policy), and notify_on_completion true
\* exactly when the policy has a non-empty title or a non-empty template.
C32_JobCarriesPolicy ==
    [][api'.op = "policy_create"
          => LET s == api'.arg.settings
                 job == api'.body
             IN IF s = None
                THEN /\ ~job.cancelable /\ ~job.notify_on_completion
                     /\ job.notification_title = None /\ job.notification_message = None
                ELSE /\ job.cancelable = s[1].cancelable
                     /\ job.notification_title = s[1].notify_title
                     /\ job.notification_message = s[1].notify_message
                     /\ job.notify_on_completion <=>
                           \/ s[1].notify_title \notin {None, Some("")}
                           \/ s[1].notify_message \notin {None, Some("")}]_vars

\* C32 witness: a job created under a cancelable policy with a message
\* template and no title notifies on completion
C32_Witness ==
    /\ api.op = "policy_create"
    /\ api.arg.settings # None
    /\ api.arg.settings[1].cancelable /\ api.arg.settings[1].notify_title = None
    /\ api.body.cancelable /\ api.body.notify_on_completion
    /\ api.body.notification_message = api.arg.settings[1].notify_message

\* C33: every invocation that created a job launches the tool callable, once:
\* the request handler awaits it (block, no threshold) or its background task
\* calls it (threshold 0 or positive), and no background task ends without
\* having called it.
C33_CallableLaunchedOnce ==
    \A i \in Made :
       /\ (IsBlock(inv[i].tool) \/ IsDirect(inv[i].tool))
             => /\ inv[i].rpc = "none"
                /\ inv[i].pc = "done" => inv[i].fin # "none"
       /\ (IsDeferred(inv[i].tool) \/ IsBounded(inv[i].tool))
             => /\ inv[i].rpc # "none"
                /\ inv[i].rpc = "done" => inv[i].fin # "none"

\* C34: when the callable of an invocation has returned and the job was not
\* cancelled, the job is SUCCESS from then on, no step sets it FAILED, and the
\* invocation is not answered with an error or a FAILED envelope. (Read for
\* the tools that have a sync_threshold and the jobs whose id no other
\* invocation drew; no job is deleted in this specification.)
C34_ReturnMeansSuccess ==
    \A i \in Made :
       (/\ ~IsDirect(inv[i].tool)
        /\ Sole(i)
        /\ inv[i].fin = "returned"
        /\ JobOf(i).status # CANCELLED)
          => /\ JobOf(i).status = SUCCESS
             /\ inv[i].resp # None =>
                   /\ inv[i].resp[1].code = 200
                   /\ inv[i].resp[1].body.status \in {SUCCESS, PENDING}

\* invocation i is answered with an envelope in this step, and no other
\* invocation drew its job id
Answered(i) ==
    /\ inv[i].resp = None /\ inv'[i].resp # None
    /\ inv'[i].resp[1].code = 200
    /\ inv'[i].job_id \in DOMAIN jobs'
    /\ \A k \in Invs \ {i} : inv'[k].pc # "idle" => inv'[k].job_id # inv'[i].job_id

\* C35 as stated: the status in the envelope an invocation is answered with is
\* the status the stored job has at that moment; a PENDING answer is given
\* for a job stored PENDING. (Read for the tools that have a sync_threshold.)
C35_ResponseStatusIsStoredStatus ==
    [][\A i \in Invs :
          (Answered(i) /\ ~IsDirect(inv'[i].tool))
             => jobs'[inv'[i].job_id].status = inv'[i].resp[1].body.status]_vars

\* C35, amended: a SUCCESS, FAILED or CANCELLED answer carries the status the
\* stored job has at that moment; a PENDING answer says that the job has not
\* finished: the job is stored PENDING when the threshold is 0 and RUNNING
\* when the threshold is positive. Without a sync_threshold the answer says
\* success while the stored job is left as it was: PENDING, or CANCELLED.
C35_ResponseStatus ==
    [][\A i \in Invs :
          Answered(i)
             => LET st == inv'[i].resp[1].body.status
                    stored == jobs'[inv'[i].job_id].status
                IN CASE IsBlock(inv'[i].tool) -> st = SUCCESS /\ stored = SUCCESS
                     [] IsDeferred(inv'[i].tool) -> st = PENDING /\ stored = PENDING
                     [] IsBounded(inv'[i].tool) ->
                           \/ st \in {SUCCESS, FAILED, CANCELLED} /\ stored = st
                           \/ st = PENDING /\ stored = RUNNING
                     [] OTHER -> st = "success" /\ stored \in {PENDING, CANCELLED}]_vars

\* C35 witness: a bounded-wait invocation has been answered PENDING at the
\* threshold while its job is stored RUNNING
C35_Witness ==
    \E i \in Made :
       /\ IsBounded(inv[i].tool) /\ Sole(i) /\ Alive(i)
       /\ inv[i].resp # None /\ inv[i].resp[1].code = 200
       /\ inv[i].resp[1].body.status = PENDING
       /\ inv[i].resp_at - inv[i].t0 >= Threshold(inv[i].tool)
       /\ JobOf(i).status = RUNNING

\* C36: for a job that is SUCCESS and whose invocation was answered with a
\* SUCCESS envelope, the status poll of the tool answers with an envelope
\* that has the same result mapping and the same parameters as that answer.
\* (Read for the jobs whose id no other invocation drew.)
C36_PollRepeatsTheAnswer ==
    \A i \in Made :
       (/\ Sole(i) /\ Alive(i)
        /\ HasStatusRoute(inv[i].tool)
        /\ JobOf(i).status = SUCCESS
        /\ inv[i].resp # None /\ inv[i].resp[1].code = 200
        /\ inv[i].resp[1].body.status = SUCCESS)
          => /\ status_answer(jobs, inv[i].tool, inv[i].job_id).code = 200
             /\ status_answer(jobs, inv[i].tool, inv[i].job_id).body.result = inv[i].resp[1].body.result
             /\ status_answer(jobs, inv[i].tool, inv[i].job_id).body.parameters = inv[i].resp[1].body.parameters

\* C37: when the request body of an invocation names an owner or a
\* conversation_id, the job created has them as its owner and conversation_id,
\* and they are not among the keyword arguments of the callable.
C37_OwnerRecordedNotForwarded ==
    [][api'.op = "body_create"
          => \A k \in {"owner", "conversation_id"} \cap DOMAIN api'.arg.body :
                /\ api'.body.job[k] = Some(api'.arg.body[k])
                /\ k \notin DOMAIN api'.body.kwargs]_vars

\* C38: update_job(id, ...) and cancel_job(id) change no record but the one
\* stored under id: the store holds the same ids afterwards, every other job
\* has all its fields as before, and no other job sends a notification.
C38_OtherJobsUntouched ==
    [][api'.op \in {"update", "cancel"}
          => /\ DOMAIN jobs' = DOMAIN jobs
             /\ \A k \in DOMAIN jobs \ {api'.id} :
                   /\ jobs'[k] = jobs[k]
                   /\ notified'[jobs[k].obj] = notified[jobs[k].obj]]_vars

\* C38 witness: with two jobs stored, one has been updated to SUCCESS after
\* the instant of its creation while the other is still PENDING and unchanged
C38_Witness ==
    /\ api.op = "update" /\ api.id \in DOMAIN jobs
    /\ jobs[api.id].status = SUCCESS
    /\ jobs[api.id].updated_at > jobs[api.id].created_at
    /\ \E k \in DOMAIN jobs \ {api.id} :
          jobs[k].status = PENDING /\ jobs[k].updated_at = jobs[k].created_at

\* C39: the envelope a status poll answers with names the tool that created
\* the job: its tool_name is the stored job's tool_name, whichever tool's
\* status endpoint the job id was polled through.
C39_PollNamesTheCreatingTool ==
    (api.op = "status" /\ api.code = 200) => api.body.tool_name = jobs[api.id].tool_name

====
